---------------------------- MODULE Spec2Model ----------------------------
(***************************************************************************)
(* A model of src/app.py: the CSV -> RAW converter (upload_csv), its daily *)
(* sequence allocator (get_next_file_id with the file-based fallback       *)
(* get_file_counter), the dedup lookup on UploadedFile.file_hash and the   *)
(* files it writes.                                                        *)
(*                                                                         *)
(* Text is modelled by TLA+ strings; a missing value (None, no file, no    *)
(* row) by the empty sequence and a present one by a one-element sequence. *)
(***************************************************************************)
EXTENDS Naturals, Sequences, FiniteSets, TLC

VARIABLES
    day,          \* the calendar day datetime.now() falls on (0 = first day)
    dbCounter,    \* rows of the FileCounter table, in primary-key order
    fileCounter,  \* content of counter.json: <<>> while the file does not exist
    uploaded,     \* rows of the UploadedFile table, in primary-key order
    csvFiles,     \* csv_files/<name>   -> content written
    reconverted,  \* reconverted/<name> -> content written
    req,          \* per worker thread: the request it is serving
    nUploads,     \* number of requests received so far
    allocLog,     \* history: every id an allocator call returned
    produced,     \* history: every artifact a request produced
    encIn,        \* row encoder on its own: <<header row, data row>>
    encOut        \* row encoder on its own: <<>> or <<result>>

vars == <<day, dbCounter, fileCounter, uploaded, csvFiles, reconverted,
          req, nUploads, allocLog, produced, encIn, encOut>>

persistent == <<dbCounter, fileCounter, uploaded, csvFiles, reconverted>>

-----------------------------------------------------------------------------
(* Bounds of the model *)

\* requests received in one run of the concurrent specification
MaxUploads == 2
\* requests received in one run of the one-at-a-time specification
MaxSeqUploads == 2
\* requests received in one run of the specification of conversions over days
MaxAllocUploads == 3
\* midnights that pass in one run
MaxDay == 1

Procs == {"t1", "t2"}

-----------------------------------------------------------------------------
(* Python string helpers *)

Digits == "0123456789"

IsDigit(c) == \E i \in 1..10 : SubSeq(Digits, i, i) = c

DigitVal(c) == (CHOOSE i \in 1..10 : SubSeq(Digits, i, i) = c) - 1

RECURSIVE AllDigits(_)
AllDigits(s) ==
    IF Len(s) = 0 THEN TRUE
    ELSE IsDigit(SubSeq(s, 1, 1)) /\ AllDigits(SubSeq(s, 2, Len(s)))

\* int(s) for a non-empty string of digits
RECURSIVE StrToNat(_)
StrToNat(s) ==
    IF Len(s) = 0 THEN 0
    ELSE 10 * StrToNat(SubSeq(s, 1, Len(s) - 1)) + DigitVal(SubSeq(s, Len(s), Len(s)))

\* str(n) for n >= 0
RECURSIVE NatToStr(_)
NatToStr(n) ==
    IF n < 10 THEN SubSeq(Digits, n + 1, n + 1)
    ELSE NatToStr(n \div 10) \o SubSeq(Digits, (n % 10) + 1, (n % 10) + 1)

\* str.zfill(width) (no sign handling: the program pads unsigned text only)
RECURSIVE zfill(_, _)
zfill(s, width) == IF Len(s) >= width THEN s ELSE zfill("0" \o s, width)

RECURSIVE lstrip(_)
lstrip(s) ==
    IF Len(s) > 0 /\ SubSeq(s, 1, 1) = " " THEN lstrip(SubSeq(s, 2, Len(s))) ELSE s

RECURSIVE rstrip(_)
rstrip(s) ==
    IF Len(s) > 0 /\ SubSeq(s, Len(s), Len(s)) = " "
    THEN rstrip(SubSeq(s, 1, Len(s) - 1)) ELSE s

\* str.strip() (blanks are the only whitespace the inputs hold)
strip(s) == rstrip(lstrip(s))

\* str.replace(old, "") for a one-character old
RECURSIVE remove(_, _)
remove(s, old) ==
    IF Len(s) = 0 THEN s
    ELSE IF SubSeq(s, 1, 1) = old THEN remove(SubSeq(s, 2, Len(s)), old)
    ELSE SubSeq(s, 1, 1) \o remove(SubSeq(s, 2, Len(s)), old)

startswith(s, prefix) ==
    Len(s) >= Len(prefix) /\ SubSeq(s, 1, Len(prefix)) = prefix

\* position of the first character of s that is in seps, 0 when there is none
RECURSIVE FindSep(_, _, _)
FindSep(s, seps, i) ==
    IF i > Len(s) THEN 0
    ELSE IF SubSeq(s, i, i) \in seps THEN i
    ELSE FindSep(s, seps, i + 1)

\* s split at every character of seps
RECURSIVE split(_, _)
split(s, seps) ==
    LET i == FindSep(s, seps, 1)
    IN  IF i = 0 THEN <<s>>
        ELSE <<SubSeq(s, 1, i - 1)>> \o split(SubSeq(s, i + 1, Len(s)), seps)

Min(a, b) == IF a <= b THEN a ELSE b

-----------------------------------------------------------------------------
(* Python dict helpers: a dict is a function from its keys *)

\* dict(zip(keys, values)): positional, cut to the shorter, the last of a
\* repeated key wins
zipdict(keys, values) ==
    LET n == Min(Len(keys), Len(values))
    IN  [k \in {keys[i] : i \in 1..n} |->
            values[CHOOSE i \in 1..n : keys[i] = k /\ \A j \in (i+1)..n : keys[j] # k]]

get(d, k, default) == IF k \in DOMAIN d THEN d[k] ELSE default

put(d, k, v) == (k :> v) @@ d

pop(d, k) == [x \in DOMAIN d \ {k} |-> d[x]]

\* {**a, **b}: b's entries override a's
merge(a, b) == b @@ a

-----------------------------------------------------------------------------
(* Constants of the program *)

Bnfcry == "1207650000865934"

RAW_HEADER_PREFIX == "076500DPADM"

CONSTANT_FIELDS ==
    [Bnfcry |-> Bnfcry, Flg |-> "S", Trf |-> "X", Rsn |-> "2", Paymod |-> "2"]

RAW_ORDER_NSDL ==
    <<"Tp", "Dt", "Bnfcry", "ISIN", "Qty", "Flg", "Trf", "Clnt", "Brkr",
      "Rsn", "Conamt", "Paymod", "Bnkno", "Bnkname", "Brnchname", "Xferdt", "Chqrefno">>

RAW_ORDER_CDSL ==
    <<"Tp", "Dt", "Bnfcry", "CtrPty", "ISIN", "Qty", "Flg", "Trf",
      "Rsn", "Conamt", "Paymod", "Bnkno", "Bnkname", "Brnchname", "Xferdt", "Chqrefno">>

-----------------------------------------------------------------------------
(* dateutil's parser.parse(text, dayfirst=True).strftime('%d%m%Y')         *)
(*                                                                         *)
(* Modelled for the numeric shapes a/b/yyyy and a-b-yyyy (one or two       *)
(* digits for a and b, blanks around the text ignored); any other text is  *)
(* reported as unparseable, and the inputs hold no other parseable shape.  *)

\* what stands for the exception parser.parse raises
DtInvalid == "INVALID"

DaysInMonth(m, y) ==
    IF m \in {4, 6, 9, 11} THEN 30
    ELSE IF m = 2
         THEN (IF (y % 4 = 0 /\ y % 100 # 0) \/ y % 400 = 0 THEN 29 ELSE 28)
    ELSE 31

\* dayfirst resolution of three numbers with the year last: the first is the
\* day when it cannot be a month or when the second can be one
parse_dayfirst(text) ==
    LET tok == split(strip(text), {"/", "-"})
    IN  IF \/ Len(tok) # 3
           \/ \E i \in 1..Len(tok) : tok[i] = "" \/ ~AllDigits(tok[i])
        THEN DtInvalid
        ELSE IF Len(tok[1]) > 2 \/ Len(tok[2]) > 2 \/ Len(tok[3]) # 4
        THEN DtInvalid
        ELSE LET a == StrToNat(tok[1])
                 b == StrToNat(tok[2])
                 y == StrToNat(tok[3])
                 d == IF a > 12 \/ b <= 12 THEN a ELSE b
                 m == IF a > 12 \/ b <= 12 THEN b ELSE a
             IN  IF y >= 1 /\ m \in 1..12 /\ d >= 1 /\ d <= DaysInMonth(m, y)
                 THEN zfill(NatToStr(d), 2) \o zfill(NatToStr(m), 2) \o zfill(NatToStr(y), 4)
                 ELSE DtInvalid

-----------------------------------------------------------------------------
(* f"{float(text):.<places>f}"                                             *)
(*                                                                         *)
(* Modelled for unsigned decimal literals (digits, at most one point).     *)
(* Fractional digits past <places> are cut, not rounded: the inputs hold   *)
(* no literal with more fractional digits than the places asked for, and   *)
(* none of the other texts float() accepts (sign, exponent, inf, nan).     *)

\* what stands for the ValueError float() raises
NumInvalid == "INVALID"

RECURSIVE ljust0(_, _)
ljust0(s, width) == IF Len(s) >= width THEN s ELSE ljust0(s \o "0", width)

format_float(text, places) ==
    LET parts == split(text, {"."})
        whole == parts[1]
        frac  == IF Len(parts) = 2 THEN parts[2] ELSE ""
    IN  IF \/ Len(parts) > 2
           \/ ~AllDigits(whole) \/ ~AllDigits(frac)
           \/ Len(whole) + Len(frac) = 0
        THEN NumInvalid
        ELSE NatToStr(StrToNat(whole)) \o "." \o SubSeq(ljust0(frac, places), 1, places)

-----------------------------------------------------------------------------
(* upload_csv, the body of one row (the loop body of "Build RAW body")     *)

\* row_dict: the row zipped against the header, every value stripped
StripRow(headers, row) ==
    LET d == zipdict(headers, row) IN [k \in DOMAIN d |-> strip(d[k])]

IsNsdl(ctrpty) == startswith(ctrpty, "IN")

TpValue(is_nsdl) == IF is_nsdl THEN "4" ELSE "5"

\* NSDL: Brkr and Clnt from the two halves; CDSL: CtrPty kept, Clnt and Brkr popped
SplitCtrPty(row_dict, ctrpty, is_nsdl) ==
    IF is_nsdl
    THEN put(put(row_dict, "Brkr", SubSeq(ctrpty, 1, 8)), "Clnt", SubSeq(ctrpty, 9, Len(ctrpty)))
    ELSE pop(pop(put(row_dict, "CtrPty", ctrpty), "Clnt"), "Brkr")

\* a fault seeded in TagOrder: one template for both depositories
TagOrderOneTemplate(is_nsdl) == RAW_ORDER_CDSL

TagOrder(is_nsdl) == IF is_nsdl THEN RAW_ORDER_NSDL ELSE RAW_ORDER_CDSL

\* a fault seeded in Merged: Tp set before the row is merged in
MergedTpFirst(row_dict, tp_value) == merge(put(CONSTANT_FIELDS, "Tp", tp_value), row_dict)

\* a fault seeded in Merged: the constants merged over the row
MergedConstantsLast(row_dict, tp_value) ==
    put(merge(row_dict, CONSTANT_FIELDS), "Tp", tp_value)

\* merged = {**CONSTANT_FIELDS, **row_dict}; merged["Tp"] = tp_value
Merged(row_dict, tp_value) == put(merge(CONSTANT_FIELDS, row_dict), "Tp", tp_value)

Tag(k, v) == "<" \o k \o ">" \o v \o "</" \o k \o ">"

\* the pieces ''.join concatenates into the line, in tag order
RenderLine(merged, order) == [i \in 1..Len(order) |-> Tag(order[i], get(merged, order[i], ""))]

\* What the loop body returns: [err |-> the response that ends the request,
\* "" when the row is encoded, line |-> the encoded line].  The body is a
\* chain of steps, each handing row_dict to the next; they are defined last
\* step first.
RowError(msg) == [err |-> msg, line |-> <<>>]

\* "Merge constants and override Tp", "Build the line in the correct tag order"
RenderRow(row_dict, is_nsdl) ==
    [err |-> "", line |-> RenderLine(Merged(row_dict, TpValue(is_nsdl)), TagOrder(is_nsdl))]

\* "Ensure Chqrefno is 8 digits (zero-padded)"
PadChqrefno(row_dict, is_nsdl) ==
    LET chqref == strip(get(row_dict, "Chqrefno", ""))
    IN  RenderRow(put(row_dict, "Chqrefno",
                      IF chqref # "" THEN zfill(chqref, 8) ELSE "00000000"),
                  is_nsdl)

FormatConamt(row_dict, is_nsdl) ==
    LET conamt == remove(get(row_dict, "Conamt", ""), ",")
    IN  IF conamt # "" /\ format_float(conamt, 2) = NumInvalid
        THEN RowError("Invalid Conamt: " \o get(row_dict, "Conamt", ""))
        ELSE PadChqrefno(IF conamt # "" THEN put(row_dict, "Conamt", format_float(conamt, 2))
                         ELSE row_dict,
                         is_nsdl)

\* "Format Qty and Conamt"
FormatQty(row_dict, is_nsdl) ==
    LET qty == remove(get(row_dict, "Qty", ""), ",")
    IN  IF qty # "" /\ format_float(qty, 3) = NumInvalid
        THEN RowError("Invalid Qty: " \o get(row_dict, "Qty", ""))
        ELSE FormatConamt(IF qty # "" THEN put(row_dict, "Qty", format_float(qty, 3))
                          ELSE row_dict,
                          is_nsdl)

\* "Decide NSDL vs CDSL on CtrPty and set Tp"
Classify(row_dict) ==
    LET ctrpty == get(row_dict, "CtrPty", "")
    IN  IF ctrpty = "" \/ Len(ctrpty) # 16
        THEN RowError("Invalid CtrPty: " \o ctrpty \o ". Must be exactly 16 characters.")
        ELSE FormatQty(SplitCtrPty(row_dict, ctrpty, IsNsdl(ctrpty)), IsNsdl(ctrpty))

\* "Force Xferdt = Dt (from CSV)"
ForceXferdt(row_dict) == Classify(put(row_dict, "Xferdt", get(row_dict, "Dt", "")))

\* "Normalize Dt from CSV to ddmmyyyy"
NormalizeDt(row_dict) ==
    IF "Dt" \in DOMAIN row_dict /\ row_dict["Dt"] # ""
    THEN IF parse_dayfirst(row_dict["Dt"]) = DtInvalid
         THEN RowError("Invalid Dt format: " \o row_dict["Dt"])
         ELSE ForceXferdt(put(row_dict, "Dt", parse_dayfirst(row_dict["Dt"])))
    ELSE ForceXferdt(row_dict)

BuildRow(headers, row) == NormalizeDt(StripRow(headers, row))

\* the loop over data_rows: the first row that fails ends the request
RECURSIVE BuildBody(_, _, _)
BuildBody(headers, data_rows, i) ==
    IF i > Len(data_rows) THEN [err |-> "", lines |-> <<>>]
    ELSE LET r == BuildRow(headers, data_rows[i])
         IN  IF r.err # "" THEN [err |-> r.err, lines |-> <<>>]
             ELSE LET rest == BuildBody(headers, data_rows, i + 1)
                  IN  IF rest.err # "" THEN rest
                      ELSE [err |-> "", lines |-> <<r.line>> \o rest.lines]

-----------------------------------------------------------------------------
(* upload_csv, "Parse CSV" to "Ensure all rows share the same Dt"          *)

Headers(all_rows) == [i \in 1..Len(all_rows[1]) |-> strip(all_rows[1][i])]

DataRows(all_rows) == SubSeq(all_rows, 2, Len(all_rows))

\* a fault seeded in CheckRowDt: the row's text, not its parsed date, is
\* compared with file_date
CheckRowDtRawText(headers, row, file_date) ==
    LET row_dict == zipdict(headers, row)
    IN  IF "Dt" \in DOMAIN row_dict /\ row_dict["Dt"] # ""
        THEN IF parse_dayfirst(row_dict["Dt"]) = DtInvalid
             THEN "Invalid Dt format: " \o row_dict["Dt"]
             ELSE IF row_dict["Dt"] # file_date
             THEN "Mismatch: Dt " \o row_dict["Dt"] \o " does not match file date " \o file_date
             ELSE ""
        ELSE ""

\* one row of the loop "Ensure all rows share the same Dt": "" when it passes
CheckRowDt(headers, row, file_date) ==
    LET row_dict == zipdict(headers, row)
    IN  IF "Dt" \in DOMAIN row_dict /\ row_dict["Dt"] # ""
        THEN LET dt_val == parse_dayfirst(row_dict["Dt"])
             IN  IF dt_val = DtInvalid THEN "Invalid Dt format: " \o row_dict["Dt"]
                 ELSE IF dt_val # file_date
                 THEN "Mismatch: Dt " \o dt_val \o " does not match file date " \o file_date
                 ELSE ""
        ELSE ""

RECURSIVE CheckRowsDt(_, _, _, _)
CheckRowsDt(headers, data_rows, i, file_date) ==
    IF i > Len(data_rows) THEN ""
    ELSE LET e == CheckRowDt(headers, data_rows[i], file_date)
         IN  IF e # "" THEN e ELSE CheckRowsDt(headers, data_rows, i + 1, file_date)

\* [err |-> the response returned, "" when the batch goes on, file_date |-> ...]
ValidateBatch(all_rows) ==
    IF Len(all_rows) < 2 THEN [err |-> "CSV format invalid.", file_date |-> ""]
    ELSE LET headers == Headers(all_rows)
             data_rows == DataRows(all_rows)
             row_dict_first == zipdict(headers, data_rows[1])
         IN  IF "Dt" \notin DOMAIN row_dict_first \/ row_dict_first["Dt"] = ""
             THEN [err |-> "Missing Dt in first row.", file_date |-> ""]
             ELSE LET file_date == parse_dayfirst(row_dict_first["Dt"])
                  IN  IF file_date = DtInvalid
                      THEN [err |-> "Invalid Dt format in first row: " \o row_dict_first["Dt"],
                            file_date |-> ""]
                      ELSE [err |-> CheckRowsDt(headers, data_rows, 1, file_date),
                            file_date |-> file_date]

-----------------------------------------------------------------------------
(* The clock: day 0 is 1 February 2024, a midnight passes with every Tick  *)

\* datetime.now().strftime('%Y-%m-%d')
now_Ymd(d) == "2024-02-" \o zfill(NatToStr(d + 1), 2)

\* datetime.now().strftime('%d%m%Y')
now_dmY(d) == zfill(NatToStr(d + 1), 2) \o "022024"

-----------------------------------------------------------------------------
(* upload_csv: what it computes between its reads and writes of shared state *)

\* hashlib.sha256(csv_content.encode()).hexdigest(): collision-free, so the
\* digest is modelled by the content it is the digest of
Sha256(csv_content) == <<"sha256", csv_content>>

\* a fault seeded in FirstByHash: the first row of the table is never looked at
FirstByHashSkipFirst(table, file_hash) ==
    IF \E i \in 2..Len(table) : table[i].file_hash = file_hash
    THEN <<table[CHOOSE i \in 2..Len(table) :
                    /\ table[i].file_hash = file_hash
                    /\ \A j \in 2..(i - 1) : table[j].file_hash # file_hash]>>
    ELSE <<>>

\* UploadedFile.query.filter_by(file_hash=file_hash).first(), as <<>> or <<row>>
FirstByHash(table, file_hash) ==
    IF \E i \in 1..Len(table) : table[i].file_hash = file_hash
    THEN <<table[CHOOSE i \in 1..Len(table) :
                    /\ table[i].file_hash = file_hash
                    /\ \A j \in 1..(i - 1) : table[j].file_hash # file_hash]>>
    ELSE <<>>

Link(filename) ==
    "<a href='/download/reconverted/" \o filename \o "'>" \o filename \o "</a>"

ExistsResponse(raw_filename) == "File already exists: " \o Link(raw_filename)

CreatedResponse(filename) == "Raw file created: " \o Link(filename)

\* filename = f"18{Bnfcry}.{todays_date}.{file_id}"
Filename(todays_date, file_id) == "18" \o Bnfcry \o "." \o todays_date \o "." \o file_id

\* a fault seeded in RawHeader: the id before the row count
RawHeaderIdFirst(row_count, file_id, todays_date) ==
    RAW_HEADER_PREFIX \o " " \o file_id \o row_count \o todays_date

\* raw_header = f"{RAW_HEADER_PREFIX} {row_count}{file_id}{todays_date}"
RawHeader(row_count, file_id, todays_date) ==
    RAW_HEADER_PREFIX \o " " \o row_count \o file_id \o todays_date

\* a fault seeded in DbNextId: no reset on a new day
DbNextIdNoReset(counter, today) == counter.last_id + 1

\* the counter rule of get_next_file_id for an existing row
DbNextId(counter, today) ==
    IF counter.last_date # today THEN 1 ELSE counter.last_id + 1

\* the counter rule of get_file_counter for an existing file
FileNextId(data, today) ==
    IF data.last_date # today THEN 1 ELSE data.last_id + 1

-----------------------------------------------------------------------------
(* State *)

\* raw_content: the header line and the body lines, each line kept as the
\* pieces ''.join concatenates; '\n'.join ends each with a newline
NoContent == [header |-> "", lines |-> <<>>]

NoFiles == [name \in {} |-> NoContent]

IdleReq ==
    [pc |-> "idle",          \* where the thread is in upload_csv
     num |-> 0,              \* history: the number of the request
     file |-> <<>>,          \* request.files.get('csv_file'): <<>> or <<all_rows>>
     file_date |-> "",
     today |-> "",           \* today of the allocator call
     counter |-> <<>>,       \* what the allocator read: <<>> or <<row>>
     file_id_int |-> 0,
     todays_date |-> "",
     filename |-> "",
     raw_content |-> NoContent,
     response |-> "",        \* what upload_csv returned
     lookup_failed |-> FALSE,   \* history: the dedup query raised
     counter_failed |-> FALSE,  \* history: the FileCounter query or commit raised
     save_failed |-> FALSE,     \* history: the UploadedFile commit raised
     before |-> <<>>]        \* history: the persistent state when the request came

\* a fresh deployment: empty tables, no counter.json, no files
InitSys ==
    /\ day = 0
    /\ dbCounter = <<>>
    /\ fileCounter = <<>>
    /\ uploaded = <<>>
    /\ csvFiles = NoFiles
    /\ reconverted = NoFiles
    /\ req = [p \in Procs |-> IdleReq]
    /\ nUploads = 0
    /\ allocLog = <<>>
    /\ produced = <<>>

Init ==
    /\ InitSys
    /\ encIn = <<>>
    /\ encOut = <<>>

Returned(r) == r.pc = "done"

-----------------------------------------------------------------------------
(* upload_csv *)

\* from the request to the end of the Dt validation: the dedup query
\* (db_ok: it did not raise), csv parsing and the checks on Dt
Receive(p, file, db_ok, limit) ==
    /\ req[p].pc \in {"idle", "done"}
    /\ nUploads < limit
    /\ nUploads' = nUploads + 1
    /\ LET r0 == [IdleReq EXCEPT !.num = nUploads + 1, !.file = file,
                                 !.before = <<persistent>>,
                                 !.lookup_failed = ~db_ok]
       IN  IF file = <<>>
           THEN req' = [req EXCEPT ![p] =
                          [r0 EXCEPT !.pc = "done", !.response = "No file uploaded.",
                                     !.lookup_failed = FALSE]]
           ELSE LET existing_file ==
                        IF db_ok THEN FirstByHash(uploaded, Sha256(file[1])) ELSE <<>>
                    v == ValidateBatch(file[1])
                IN  IF existing_file # <<>>
                    THEN req' = [req EXCEPT ![p] =
                                   [r0 EXCEPT !.pc = "done",
                                              !.response = ExistsResponse(existing_file[1].raw_filename)]]
                    ELSE IF v.err # ""
                    THEN req' = [req EXCEPT ![p] = [r0 EXCEPT !.pc = "done", !.response = v.err]]
                    ELSE req' = [req EXCEPT ![p] = [r0 EXCEPT !.pc = "alloc", !.file_date = v.file_date]]
    /\ UNCHANGED <<day, persistent, allocLog, produced, encIn, encOut>>

\* upload_csv from the return of get_next_file_id to the end of "Build RAW
\* body" (no shared state is read or written there): file_id, the names, the
\* header and the body, for request r given id at clock d
Built(r, id, d) ==
    LET all_rows == r.file[1]
        data_rows == DataRows(all_rows)
        row_count == zfill(NatToStr(Len(data_rows)), 6)
        file_id == zfill(NatToStr(id), 5)
        todays_date == now_dmY(d)
        body == BuildBody(Headers(all_rows), data_rows, 1)
        r1 == [r EXCEPT !.file_id_int = id, !.todays_date = todays_date,
                        !.filename = Filename(todays_date, file_id)]
    IN  IF body.err # ""
        THEN [r1 EXCEPT !.pc = "done", !.response = body.err]
        ELSE [r1 EXCEPT !.pc = "save",
                        !.raw_content = [header |-> RawHeader(row_count, file_id, todays_date),
                                         lines |-> body.lines]]

\* a fault seeded in DbQuery: the exception is not caught and ends the request
DbQueryNoFallback(p, db_ok) ==
    /\ req[p].pc = "alloc"
    /\ req' = [req EXCEPT ![p] =
                 IF db_ok
                 THEN [@ EXCEPT !.pc = "db_commit", !.today = now_Ymd(day),
                                !.counter = IF dbCounter = <<>> THEN <<>> ELSE <<dbCounter[1]>>]
                 ELSE [@ EXCEPT !.pc = "done", !.counter_failed = TRUE,
                                !.response = "Internal Server Error"]]
    /\ UNCHANGED <<day, persistent, nUploads, allocLog, produced, encIn, encOut>>

\* get_next_file_id: today and FileCounter.query.first(); an exception goes
\* to get_file_counter
DbQuery(p, db_ok) ==
    /\ req[p].pc = "alloc"
    /\ req' = [req EXCEPT ![p] =
                 IF db_ok
                 THEN [@ EXCEPT !.pc = "db_commit", !.today = now_Ymd(day),
                                !.counter = IF dbCounter = <<>> THEN <<>> ELSE <<dbCounter[1]>>]
                 ELSE [@ EXCEPT !.pc = "file_read", !.counter_failed = TRUE]]
    /\ UNCHANGED <<day, persistent, nUploads, allocLog, produced, encIn, encOut>>

\* get_next_file_id: insert the first row or update the row read, commit and
\* return; an exception (nothing committed) goes to get_file_counter
DbCommit(p, db_ok) ==
    /\ req[p].pc = "db_commit"
    /\ IF ~db_ok
       THEN /\ req' = [req EXCEPT ![p] = [@ EXCEPT !.pc = "file_read", !.counter_failed = TRUE]]
            /\ UNCHANGED <<dbCounter, allocLog>>
       ELSE LET id == IF req[p].counter = <<>> THEN 1
                      ELSE DbNextId(req[p].counter[1], req[p].today)
                row == [last_id |-> id, last_date |-> req[p].today]
            IN  /\ dbCounter' = IF req[p].counter = <<>> THEN Append(dbCounter, row)
                                ELSE [dbCounter EXCEPT ![1] = row]
                /\ req' = [req EXCEPT ![p] = Built(@, id, day)]
                /\ allocLog' = Append(allocLog,
                       [num |-> req[p].num, backend |-> "db", today |-> req[p].today, id |-> id])
    /\ UNCHANGED <<day, fileCounter, uploaded, csvFiles, reconverted, nUploads, produced, encIn, encOut>>

\* get_file_counter: today, os.path.exists and json.load
FileRead(p) ==
    /\ req[p].pc = "file_read"
    /\ req' = [req EXCEPT ![p] =
                 [@ EXCEPT !.pc = "file_write", !.today = now_Ymd(day), !.counter = fileCounter]]
    /\ UNCHANGED <<day, persistent, nUploads, allocLog, produced, encIn, encOut>>

\* get_file_counter: json.dump of the first or the next id, and return
FileWrite(p) ==
    /\ req[p].pc = "file_write"
    /\ LET id == IF req[p].counter = <<>> THEN 1
                 ELSE FileNextId(req[p].counter[1], req[p].today)
       IN  /\ fileCounter' = <<[last_id |-> id, last_date |-> req[p].today]>>
           /\ req' = [req EXCEPT ![p] = Built(@, id, day)]
           /\ allocLog' = Append(allocLog,
                  [num |-> req[p].num, backend |-> "file", today |-> req[p].today, id |-> id])
    /\ UNCHANGED <<day, dbCounter, uploaded, csvFiles, reconverted, nUploads, produced, encIn, encOut>>

\* "Save to database (optional)": an exception is printed and passed over
\* (original_filename, the client's name of the file, is left out); then the
\* csv and the raw file are written and the response returned
SaveAndWrite(p, db_ok) ==
    /\ req[p].pc = "save"
    /\ uploaded' =
         IF db_ok
         THEN Append(uploaded,
                [file_id |-> zfill(NatToStr(req[p].file_id_int), 5),
                 csv_content |-> req[p].file[1],
                 raw_content |-> req[p].raw_content,
                 raw_filename |-> req[p].filename,
                 file_hash |-> Sha256(req[p].file[1])])
         ELSE uploaded
    /\ csvFiles' = put(csvFiles, zfill(NatToStr(req[p].file_id_int), 5) \o ".csv",
                       req[p].file[1])
    /\ reconverted' = put(reconverted, req[p].filename, req[p].raw_content)
    /\ req' = [req EXCEPT ![p] =
                 [@ EXCEPT !.pc = "done", !.save_failed = ~db_ok,
                           !.response = CreatedResponse(req[p].filename)]]
    /\ produced' = Append(produced,
           [num |-> req[p].num, csv_content |-> req[p].file[1],
            filename |-> req[p].filename, raw_content |-> req[p].raw_content])
    /\ UNCHANGED <<day, dbCounter, fileCounter, nUploads, allocLog, encIn, encOut>>

\* midnight
Tick ==
    /\ day < MaxDay
    /\ day' = day + 1
    /\ UNCHANGED <<persistent, req, nUploads, allocLog, produced, encIn, encOut>>

-----------------------------------------------------------------------------
(* Inputs: the parsed rows (csv.reader) of the files uploaded *)

CsvHeader == <<"Dt", "CtrPty", "Qty", "Conamt", "Chqrefno">>

\* one NSDL row, dated 1 February 2024 (day 0)
ValidNsdl ==
    <<CsvHeader, <<"01/02/2024", "IN30012345678901", "100", "500.5", "7">>>>

\* one CDSL row, dated 2 January 2024
ValidCdsl ==
    <<CsvHeader, <<"02/01/2024", "1207650000111222", "1,234.5", "999", "">>>>

\* one date in three spellings, an empty Dt and a row too short to have one
SameDayFormats ==
    << <<"CtrPty", "Qty", "Dt">>,
       <<"IN30012345678901", "1", "01/02/2024">>,
       <<"1207650000111222", "2", " 1-2-2024 ">>,
       <<"IN30012345678901", "3", "">>,
       <<"1207650000111222", "4">> >>

HeaderOnly == <<CsvHeader>>

MissingDt == <<CsvHeader, <<"", "IN30012345678901", "100", "500.5", "7">>>>

BadFirstDt == <<CsvHeader, <<"yesterday", "IN30012345678901", "100", "500.5", "7">>>>

Mismatch ==
    <<CsvHeader, <<"01/02/2024", "IN30012345678901", "100", "500.5", "7">>,
                 <<"03/02/2024", "1207650000111222", "100", "500.5", "8">>>>

\* an unparseable Dt in a row before the row of another day
BadThenMismatch ==
    <<CsvHeader, <<"01/02/2024", "IN30012345678901", "100", "500.5", "7">>,
                 <<"n/a", "1207650000111222", "100", "500.5", "8">>,
                 <<"03/02/2024", "1207650000111222", "100", "500.5", "9">>>>

\* a 15-character CtrPty in the last row
BadCtrPtyLast ==
    <<CsvHeader, <<"01/02/2024", "IN30012345678901", "100", "500.5", "7">>,
                 <<"1/2/2024", "IN3001234567890", "100", "500.5", "8">>>>

BadQty == <<CsvHeader, <<"01/02/2024", "IN30012345678901", "ten", "500.5", "7">>>>

BadConamt == <<CsvHeader, <<"01/02/2024", "1207650000111222", "10", "5OO", "7">>>>

\* what the threads are sent when they run side by side
ConcurrentFiles == {<<ValidNsdl>>, <<ValidCdsl>>, <<BadCtrPtyLast>>}

\* what the one thread is sent when requests come one at a time
SeqFiles ==
    {<<>>, <<ValidNsdl>>, <<ValidCdsl>>, <<SameDayFormats>>, <<HeaderOnly>>, <<MissingDt>>,
     <<BadFirstDt>>, <<Mismatch>>, <<BadThenMismatch>>, <<BadCtrPtyLast>>, <<BadQty>>,
     <<BadConamt>>}

-----------------------------------------------------------------------------
(* The specifications *)

\* the steps of a request in progress
Step(p) ==
    \/ \E db_ok \in BOOLEAN : DbQuery(p, db_ok)
    \/ \E db_ok \in BOOLEAN : DbCommit(p, db_ok)
    \/ FileRead(p)
    \/ FileWrite(p)
    \/ \E db_ok \in BOOLEAN : SaveAndWrite(p, db_ok)

\* worker threads serving requests side by side
Next ==
    \/ \E p \in Procs, file \in ConcurrentFiles, db_ok \in BOOLEAN :
          Receive(p, file, db_ok, MaxUploads)
    \/ \E p \in Procs : Step(p)
    \/ Tick

Spec == Init /\ [][Next]_vars

\* one request at a time, all within one day, over valid and invalid files
NextSeq ==
    \/ \E file \in SeqFiles, db_ok \in BOOLEAN : Receive("t1", file, db_ok, MaxSeqUploads)
    \/ Step("t1")

SpecSeq == Init /\ [][NextSeq]_vars

\* conversions over days: one request at a time, valid files only, so that
\* every request whose dedup query misses or raises allocates and converts
AllocFiles == {<<ValidNsdl>>, <<ValidCdsl>>}

NextAlloc ==
    \/ \E file \in AllocFiles, db_ok \in BOOLEAN : Receive("t1", file, db_ok, MaxAllocUploads)
    \/ Step("t1")
    \/ Tick

SpecAlloc == Init /\ [][NextAlloc]_vars

-----------------------------------------------------------------------------
(* The row encoder on its own, over header rows and data rows drawn from   *)
(* the values below: rows of every length up to the header's (zip cuts a   *)
(* longer header), blanks around names and values, columns named like the  *)
(* tags the program sets itself                                            *)

EncHeaderRows ==
    { <<"Dt", "CtrPty", "Qty", "Conamt", "Chqrefno">>,
      <<"CtrPty", "Tp", "Brkr", "Clnt">>,
      <<"CtrPty", "Bnfcry", "Flg", "Trf">>,
      <<" CtrPty", "Rsn ", "Paymod", "Tp">> }

ColValues(name) ==
    CASE name = "Dt"       -> {"01/02/2024", ""}
      [] name = "CtrPty"   -> {"IN30012345678901", " IN30012345678901 ", "1207650000111222",
                               "in30012345678901", "IN3001234567890", "IN300123456789012", ""}
      [] name = "Qty"      -> {"100", "1,234.5", "ten", ""}
      [] name = "Conamt"   -> {"999", "5OO"}
      [] name = "Chqrefno" -> {"42", ""}
      [] name = "Tp"       -> {"9", "4", ""}
      [] name = "Brkr"     -> {"STALEBRK", ""}
      [] name = "Clnt"     -> {"STALECLT"}
      [] name = "Bnfcry"   -> {"9999999999999999", ""}
      [] name = "Flg"      -> {"Z", " "}
      [] name = "Trf"      -> {"Y", ""}
      [] name = "Rsn"      -> {"7", ""}
      [] name = "Paymod"   -> {"1", ""}

RECURSIVE RowsOfLen(_, _)
RowsOfLen(header_row, n) ==
    IF n = 0 THEN {<<>>}
    ELSE {Append(r, v) : r \in RowsOfLen(header_row, n - 1),
                         v \in ColValues(strip(header_row[n]))}

\* every row of 1 to Len(header_row) values
EncRows(header_row) == UNION {RowsOfLen(header_row, n) : n \in 1..Len(header_row)}

EncInputs == UNION {{<<h, r>> : r \in EncRows(h)} : h \in EncHeaderRows}

InitEnc ==
    /\ InitSys
    /\ encIn \in EncInputs
    /\ encOut = <<>>

\* the loop body of "Build RAW body" applied to the row
EncodeRow ==
    /\ encOut = <<>>
    /\ encOut' = <<BuildRow(Headers(encIn), encIn[2])>>
    /\ UNCHANGED <<day, persistent, req, nUploads, allocLog, produced, encIn>>

NextEnc == EncodeRow

SpecEnc == InitEnc /\ [][NextEnc]_vars

-----------------------------------------------------------------------------
(* Properties of the row encoder (SpecEnc)                                 *)

\* the row was encoded: the loop body reached output_lines.append(line)
Encoded == encOut # <<>> /\ encOut[1].err = ""

\* the positions of the columns named k (names compared trimmed), and those
\* of them the row is long enough to have a value at
ColPositions(k) == {i \in 1..Len(encIn[1]) : strip(encIn[1][i]) = k}

ValuePositions(k) == {i \in ColPositions(k) : i <= Len(encIn[2])}

\* the row's trimmed value in column k, "" when it has none
EncValue(k) ==
    IF ValuePositions(k) = {} THEN ""
    ELSE strip(encIn[2][CHOOSE i \in ValuePositions(k) : \A j \in ValuePositions(k) : j <= i])

\* the encoded line holds the tag k with the value v
HasTag(line, k, v) ==
    \E i \in 1..Len(line) : line[i] = "<" \o k \o ">" \o v \o "</" \o k \o ">"

\* how many times the encoded line opens the tag k
TagCount(line, k) ==
    Cardinality({i \in 1..Len(line) : startswith(line[i], "<" \o k \o ">")})

\* C7: an encoded row whose 16-character CtrPty starts with "IN" carries
\* Brkr = its first 8 characters and Clnt = its last 8 and no CtrPty tag;
\* any other encoded row carries CtrPty = the whole identifier and neither
\* Brkr nor Clnt, whatever the row's own Brkr and Clnt columns hold.
C7_SplitOrWholeCtrPty ==
    (Encoded /\ Len(EncValue("CtrPty")) = 16) =>
        IF startswith(EncValue("CtrPty"), "IN")
        THEN /\ HasTag(encOut[1].line, "Brkr", SubSeq(EncValue("CtrPty"), 1, 8))
             /\ HasTag(encOut[1].line, "Clnt", SubSeq(EncValue("CtrPty"), 9, 16))
             /\ TagCount(encOut[1].line, "Brkr") = 1
             /\ TagCount(encOut[1].line, "Clnt") = 1
             /\ TagCount(encOut[1].line, "CtrPty") = 0
        ELSE /\ HasTag(encOut[1].line, "CtrPty", EncValue("CtrPty"))
             /\ TagCount(encOut[1].line, "CtrPty") = 1
             /\ TagCount(encOut[1].line, "Brkr") = 0
             /\ TagCount(encOut[1].line, "Clnt") = 0

\* a CDSL row that came with Brkr and Clnt values of its own was encoded
C7_Witness ==
    /\ Encoded
    /\ Len(EncValue("CtrPty")) = 16
    /\ ~startswith(EncValue("CtrPty"), "IN")
    /\ EncValue("Brkr") = "STALEBRK"
    /\ EncValue("Clnt") = "STALECLT"

\* C9: every encoded line carries exactly one Tp tag, and it holds "4" when
\* the row's CtrPty starts with "IN" and "5" otherwise, whatever the row's
\* own Tp column holds.
C9_TpFromClassification ==
    Encoded =>
        /\ HasTag(encOut[1].line, "Tp",
                  IF startswith(EncValue("CtrPty"), "IN") THEN "4" ELSE "5")
        /\ TagCount(encOut[1].line, "Tp") = 1

\* an NSDL row that came with Tp = 9 was encoded
C9_Witness ==
    /\ Encoded
    /\ startswith(EncValue("CtrPty"), "IN")
    /\ ValuePositions("Tp") # {}
    /\ EncValue("Tp") = "9"

-----------------------------------------------------------------------------
(* Properties of the allocator over days (SpecAlloc)                       *)

\* the allocations before the i-th that the same backend served
EarlierSameBackend(i) ==
    {j \in 1..(i - 1) : allocLog[j].backend = allocLog[i].backend}

\* the last of them
LastSameBackend(i) ==
    CHOOSE j \in EarlierSameBackend(i) : \A k \in EarlierSameBackend(i) : k <= j

\* C4 as stated: over the sequence of all allocations, the first returns 1,
\* an allocation on the day of the one before it returns that one's id plus
\* 1, and an allocation on another day returns 1.
C4_IdsIncreaseByOne ==
    \A i \in 1..Len(allocLog) :
        IF i = 1 THEN allocLog[i].id = 1
        ELSE IF allocLog[i - 1].today = allocLog[i].today
        THEN allocLog[i].id = allocLog[i - 1].id + 1
        ELSE allocLog[i].id = 1

\* C4 amended: the same rule over the allocations of each counter backend
\* (the FileCounter table, counter.json) taken on its own: the first one a
\* backend serves returns 1, one on the day of the backend's previous
\* allocation returns that one's id plus 1, one on another day returns 1.
C4_IdsIncreaseByOnePerBackend ==
    \A i \in 1..Len(allocLog) :
        IF EarlierSameBackend(i) = {} THEN allocLog[i].id = 1
        ELSE IF allocLog[LastSameBackend(i)].today = allocLog[i].today
        THEN allocLog[i].id = allocLog[LastSameBackend(i)].id + 1
        ELSE allocLog[i].id = 1

\* the database counter went 1, 2 on one day and back to 1 on the next
C4_Witness ==
    /\ Len(allocLog) = 3
    /\ \A i \in 1..3 : allocLog[i].backend = "db"
    /\ allocLog[1].id = 1 /\ allocLog[2].id = 2 /\ allocLog[3].id = 1
    /\ allocLog[1].today = allocLog[2].today
    /\ allocLog[3].today # allocLog[2].today

-----------------------------------------------------------------------------
(* Properties of upload_csv, one request at a time (SpecSeq)               *)

\* the responses that reject the input
IsInputError(response) ==
    \/ response \in {"CSV format invalid.", "Missing Dt in first row."}
    \/ startswith(response, "Invalid Dt format")
    \/ startswith(response, "Mismatch: ")
    \/ startswith(response, "Invalid CtrPty: ")
    \/ startswith(response, "Invalid Qty: ")
    \/ startswith(response, "Invalid Conamt: ")

\* the request converted its file
Created(r) == r.pc = "done" /\ startswith(r.response, "Raw file created: ")

\* the request was answered from the dedup index
Existed(r) == r.pc = "done" /\ startswith(r.response, "File already exists: ")

\* the request took no id from the allocator
NoAlloc(r) == \A i \in 1..Len(allocLog) : allocLog[i].num # r.num

\* the text of the Dt column in line i of the file ("" when the row has none)
DtText(all_rows, i) == get(zipdict(Headers(all_rows), all_rows[i]), "Dt", "")

\* the file has a first data row with a date that parses
HasFileDate(all_rows) ==
    /\ Len(all_rows) >= 2
    /\ DtText(all_rows, 2) # ""
    /\ parse_dayfirst(DtText(all_rows, 2)) # DtInvalid

\* the lines whose non-empty date parses to another day than the first row's
OtherDayRows(all_rows) ==
    {i \in 3..Len(all_rows) :
        /\ DtText(all_rows, i) # ""
        /\ parse_dayfirst(DtText(all_rows, i)) # DtInvalid
        /\ parse_dayfirst(DtText(all_rows, i)) # parse_dayfirst(DtText(all_rows, 2))}

\* the lines whose non-empty date does not parse
UnparseableRows(all_rows) ==
    {i \in 3..Len(all_rows) :
        DtText(all_rows, i) # "" /\ parse_dayfirst(DtText(all_rows, i)) = DtInvalid}

First(S) == CHOOSE i \in S : \A j \in S : i <= j

\* C2 as stated: a request answered with an input error leaves the
\* persistent state (both counters, the UploadedFile table, the csv and raw
\* files) as it was when the request came, and took no sequence id.
C2_RejectionChangesNothing ==
    \A p \in Procs :
        (Returned(req[p]) /\ IsInputError(req[p].response)) =>
            /\ <<persistent>> = req[p].before
            /\ NoAlloc(req[p])

\* C6 as stated: a batch with a row of another day is answered with the
\* Mismatch error, with nothing allocated or written; a batch whose dates all
\* parse to the first row's day or are empty or absent is not rejected by
\* the date validation.
C6_MismatchRejected ==
    \A p \in Procs :
        (req[p].pc # "idle" /\ req[p].file # <<>> /\ HasFileDate(req[p].file[1])) =>
            /\ OtherDayRows(req[p].file[1]) # {} =>
                  /\ Returned(req[p])
                  /\ startswith(req[p].response, "Mismatch: ")
                  /\ <<persistent>> = req[p].before
                  /\ NoAlloc(req[p])
            /\ (OtherDayRows(req[p].file[1]) = {} /\ UnparseableRows(req[p].file[1]) = {}) =>
                  (Returned(req[p]) => (Existed(req[p]) \/ ~NoAlloc(req[p])))

\* the response the date validation gives a batch with a row of another day
OtherDayResponse(all_rows) ==
    IF \E u \in UnparseableRows(all_rows) : u < First(OtherDayRows(all_rows))
    THEN "Invalid Dt format: " \o DtText(all_rows, First(UnparseableRows(all_rows)))
    ELSE "Mismatch: Dt " \o parse_dayfirst(DtText(all_rows, First(OtherDayRows(all_rows))))
             \o " does not match file date " \o parse_dayfirst(DtText(all_rows, 2))

\* C6 amended: a batch with a row of another day is rejected with nothing
\* allocated or written, with the Mismatch error of the first such row, or
\* with the Invalid Dt format error of a row before it whose date does not
\* parse; a batch whose dates all parse to the first row's day or are empty
\* or absent is not rejected by the date validation: it is answered from the
\* dedup index or goes on to take a sequence id.
C6_OtherDayRejected ==
    \A p \in Procs :
        (req[p].pc # "idle" /\ req[p].file # <<>> /\ HasFileDate(req[p].file[1])) =>
            /\ OtherDayRows(req[p].file[1]) # {} =>
                  /\ Returned(req[p])
                  /\ req[p].response = OtherDayResponse(req[p].file[1])
                  /\ <<persistent>> = req[p].before
                  /\ NoAlloc(req[p])
            /\ (OtherDayRows(req[p].file[1]) = {} /\ UnparseableRows(req[p].file[1]) = {}) =>
                  (Returned(req[p]) => (Existed(req[p]) \/ ~NoAlloc(req[p])))

\* a batch with a row of another day was rejected
C6_Witness ==
    \E p \in Procs :
        /\ Returned(req[p])
        /\ req[p].file # <<>>
        /\ HasFileDate(req[p].file[1])
        /\ OtherDayRows(req[p].file[1]) # {}
        /\ startswith(req[p].response, "Mismatch: ")

\* the conversions of the content of request r that earlier requests made
EarlierProductions(r) ==
    {k \in 1..Len(produced) :
        produced[k].csv_content = r.file[1] /\ produced[k].num < r.num}

\* the rows of the dedup index for the content of request r
RecordsOf(r) == {i \in 1..Len(uploaded) : uploaded[i].csv_content = r.file[1]}

\* C3: while every record write has succeeded, a request whose dedup lookup
\* did not raise and whose content an earlier request converted is answered
\* with the filename of the first such conversion, the first index row for
\* the content holds that conversion's filename and content, and the request
\* changes nothing: no id taken, no record added, no file written.
C3_DuplicateReturnsFirstArtifact ==
    \A p \in Procs :
        (/\ req[p].pc # "idle" /\ req[p].file # <<>>
         /\ ~req[p].lookup_failed
         /\ Len(uploaded) = Len(produced)
         /\ EarlierProductions(req[p]) # {}) =>
            /\ Returned(req[p])
            /\ req[p].response =
                   ExistsResponse(produced[First(EarlierProductions(req[p]))].filename)
            /\ RecordsOf(req[p]) # {}
            /\ uploaded[First(RecordsOf(req[p]))].raw_filename =
                   produced[First(EarlierProductions(req[p]))].filename
            /\ uploaded[First(RecordsOf(req[p]))].raw_content =
                   produced[First(EarlierProductions(req[p]))].raw_content
            /\ <<persistent>> = req[p].before
            /\ NoAlloc(req[p])
            /\ \A k \in 1..Len(produced) : produced[k].num # req[p].num

\* a file converted twice (the second time the lookup raised) was uploaded a
\* third time, on a later day, and answered from the index
C3_Witness ==
    \E p \in Procs :
        /\ Existed(req[p])
        /\ Cardinality(EarlierProductions(req[p])) = 2
        /\ Len(uploaded) = Len(produced)
        /\ day > 0

\* the id the allocator gave request r, as file_id
AllocatedId(r) ==
    zfill(NatToStr(allocLog[CHOOSE i \in 1..Len(allocLog) : allocLog[i].num = r.num].id), 5)

\* row_count of request r
RowCount(r) == zfill(NatToStr(Len(r.file[1]) - 1), 6)

NumberOrEmpty(text) ==
    remove(text, ",") = "" \/ format_float(remove(text, ","), 3) # NumInvalid

\* the batch has no input error: two lines or more, a first date that
\* parses, no row of another day or with a date that does not parse, and in
\* every row a 16-character CtrPty and numeric or empty Qty and Conamt
ValidBatchInput(all_rows) ==
    /\ HasFileDate(all_rows)
    /\ OtherDayRows(all_rows) = {}
    /\ UnparseableRows(all_rows) = {}
    /\ \A i \in 2..Len(all_rows) :
          /\ Len(get(StripRow(Headers(all_rows), all_rows[i]), "CtrPty", "")) = 16
          /\ NumberOrEmpty(get(StripRow(Headers(all_rows), all_rows[i]), "Qty", ""))
          /\ NumberOrEmpty(get(StripRow(Headers(all_rows), all_rows[i]), "Conamt", ""))

\* the request is at one of the steps of upload_csv between the Dt validation
\* and the return
InProgress(r) == r.pc \in {"alloc", "db_commit", "file_read", "file_write", "save"}

\* what holds of a request with a valid batch at every moment: until it
\* returns it is at one of those steps, and when it has returned it has
\* either converted the batch (every row encoded, the raw and the csv file
\* written) or been answered from the dedup index; a request whose counter
\* query or commit raised has its id from get_file_counter
ValidBatchAnswered ==
    \A p \in Procs :
        (req[p].pc # "idle" /\ req[p].file # <<>> /\ ValidBatchInput(req[p].file[1])) =>
            /\ ~Returned(req[p]) => InProgress(req[p])
            /\ Returned(req[p]) =>
                  \/ /\ req[p].response = CreatedResponse(req[p].filename)
                     /\ Len(req[p].raw_content.lines) = Len(req[p].file[1]) - 1
                     /\ req[p].filename \in DOMAIN reconverted
                     /\ reconverted[req[p].filename] = req[p].raw_content
                     /\ csvFiles[AllocatedId(req[p]) \o ".csv"] = req[p].file[1]
                  \/ /\ Existed(req[p])
                     /\ ~req[p].lookup_failed
            /\ (req[p].counter_failed /\ req[p].pc \in {"save", "done"}) =>
                  \E i \in 1..Len(allocLog) :
                      /\ allocLog[i].num = req[p].num
                      /\ allocLog[i].backend = "file"
                      /\ allocLog[i].id = req[p].file_id_int

\* how far a request is in upload_csv
Rank(pc) ==
    CASE pc = "idle" -> 0
      [] pc = "alloc" -> 1
      [] pc = "db_commit" -> 2
      [] pc = "file_read" -> 3
      [] pc = "file_write" -> 4
      [] pc = "save" -> 5
      [] pc = "done" -> 6

\* a step of a request in progress takes it further in upload_csv, whether
\* or not the database raised: there is no way back and no retry
StepAdvances ==
    \A p \in Procs :
        (InProgress(req[p]) /\ req'[p] # req[p]) =>
            /\ req'[p].num = req[p].num
            /\ Rank(req'[p].pc) > Rank(req[p].pc)

\* C8: a request with a valid batch goes forward with every step it takes,
\* whichever of the dedup lookup, the counter query or commit and the record
\* write raise, and when it has returned it has converted the batch (or been
\* answered from the dedup index) as ValidBatchAnswered says: no failure of
\* the database is returned as an error.
C8_ValidBatchCompletes == []ValidBatchAnswered /\ [][StepAdvances]_vars

\* a valid batch was converted although the dedup lookup, the counter query
\* or commit and the record write all raised
C8_Witness ==
    \E p \in Procs :
        /\ Created(req[p])
        /\ ValidBatchInput(req[p].file[1])
        /\ req[p].lookup_failed
        /\ req[p].counter_failed
        /\ req[p].save_failed

-----------------------------------------------------------------------------
(* Properties of the allocator under concurrent requests (Spec)            *)

\* C1 as stated, for each counter on its own: no two allocations that the
\* same counter (the FileCounter table, counter.json) served on the same day
\* returned the same id.
C1_NoIdReturnedTwice ==
    \A i, j \in 1..Len(allocLog) :
        (/\ i # j
         /\ allocLog[i].backend = allocLog[j].backend
         /\ allocLog[i].today = allocLog[j].today) =>
            allocLog[i].id # allocLog[j].id

=============================================================================
